---- MODULE Spec2Model ----
(***************************************************************************)
(* Model of class SQLITE3 (include/SQLITE3.hpp): one instance, the SQLite  *)
(* engine it drives through sqlite3_open / sqlite3_exec / sqlite3_close /  *)
(* sqlite3_free, and the query binder it resolves before executing.        *)
(*                                                                         *)
(* Every member function is one action.  Its body is an operator over a    *)
(* record of the instance's fields and the engine's state ("world") that   *)
(* yields the set of worlds the call can end in, one per answer the engine *)
(* can give; the action picks one of them.                                 *)
(***************************************************************************)
EXTENDS Integers, Sequences, FiniteSets, TLC

\* ------------------------------------------------------------------ bounds
MaxRows == 2      \* rows the engine reports during one sqlite3_exec
MaxMsgs == 2      \* diagnostic buffers the engine allocates in one run
MaxCols == 2      \* columns of a row handed to exec_callback on its own

\* --------------------------------------------------------------- constants
NULL == 0                       \* nullptr, for sqlite3* and char*
NullPtr == "nullptr"            \* argv[i] == nullptr in the row callback
Garbage == 42                   \* an indeterminate char that is no error code

OpenFailed == 1
AlreadyOpen == 2
BindingFailed == 3
NotConnected == 4
ExecutionFailed == 127

BEGIN == <<"BEGIN;">>
COMMIT == <<"COMMIT;">>

\* error_no is never initialised by the constructor: it starts indeterminate.
UninitChar == {0, Garbage, ExecutionFailed}

\* ------------------------------------------------------------------ inputs
Paths == {"", "f"}
Keys == {"id"}

Lit(s) == [kind |-> "lit", text |-> s]
Ph(k) == [kind |-> "ph", text |-> k]

Templates == { <<Lit("SELECT"), Ph("id")>> }
BindingMaps == { [k \in {} |-> "5"], [k \in {"id"} |-> "5"] }
Queries == { [template |-> t, bindings |-> b] : t \in Templates, b \in BindingMaps }

\* SQL text is the sequence of its tokens.
Strings == { <<"SELECT", "5">>, BEGIN, COMMIT }

\* what the engine can hand to the row callback
EngineRows == { <<"x">>, <<NullPtr, "x">> }
RowSeqs == UNION { [1..n -> EngineRows] : n \in 0..MaxRows }

\* ------------------------------------------------------------------- state
VARIABLES
    pc,         \* "new" | "live" | "thrown" (constructor threw) | "dead"
    error_no,   \* char error_no
    db,         \* sqlite3 *db: NULL or the index of a handle in conn
    err_msg,    \* char *err_msg: NULL or the index of a buffer in msgs
    result,     \* *result: the rows collected by exec_callback
    conn,       \* engine: the handles sqlite3_open produced
    msgs,       \* engine: the message buffers sqlite3_exec allocated (times freed)
    calls,      \* the engine and binder calls made by the latest operation
    last        \* the latest operation: name, argument (the query of an execute),
                \* return value, db and row count at entry

vars == <<pc, error_no, db, err_msg, result, conn, msgs, calls, last>>

World ==
    [db |-> db, err_msg |-> err_msg, error_no |-> error_no, result |-> result,
     conn |-> conn, msgs |-> msgs, calls |-> <<>>]

Call(fn, h, sql, rc, rows) == [fn |-> fn, h |-> h, sql |-> sql, rc |-> rc, rows |-> rows]

\* ------------------------------------------------------------ query binder
\* SQLITE3_QUERY::bind(): literal fragments verbatim, each placeholder replaced
\* by its bound value; a placeholder without a value throws std::out_of_range.
RECURSIVE Resolve(_, _)
Resolve(template, bindings) ==
    IF template = <<>> THEN [ok |-> TRUE, bound_query |-> <<>>]
    ELSE LET f == Head(template)
             rest == Resolve(Tail(template), bindings)
         IN  IF f.kind = "ph" /\ f.text \notin DOMAIN bindings
                 THEN [ok |-> FALSE, bound_query |-> <<>>]
             ELSE IF ~rest.ok THEN rest
             ELSE [ok |-> TRUE,
                   bound_query |-> <<IF f.kind = "ph" THEN bindings[f.text] ELSE f.text>>
                                      \o rest.bound_query]

bind(w, query) ==
    LET r == Resolve(query.template, query.bindings)
    IN  [w |-> [w EXCEPT !.calls = Append(@, Call("bind", NULL, r.bound_query,
                                                   IF r.ok THEN "OK" ELSE "out_of_range", <<>>))],
         ok |-> r.ok, bound_query |-> r.bound_query]

\* ------------------------------------------------------------------ engine
\* sqlite3_open: a usable handle; or a failure that still hands out a handle
\* (which must be closed); or, out of memory, a failure with *ppDb = NULL.
sqlite3_open(w, name) ==
    LET h == Len(w.conn) + 1
        made(st, rc) ==
            [w |-> [w EXCEPT !.db = h,
                             !.conn = Append(@, [state |-> st, tx |-> 0, closes |-> 0]),
                             !.calls = Append(@, Call("open", h, <<name>>, rc, <<>>))],
             rc |-> rc]
    IN  { made("open", "OK"), made("sick", "CANTOPEN"),
          [w |-> [w EXCEPT !.db = NULL,
                           !.calls = Append(@, Call("open", NULL, <<name>>, "NOMEM", <<>>))],
           rc |-> "NOMEM"] }

\* sqlite3_close: a no-op on NULL; otherwise the handle is released (an open
\* transaction is rolled back).  closes counts the calls on the handle.
sqlite3_close(w) ==
    LET h == w.db
    IN  [w EXCEPT !.conn = IF h = NULL THEN @
                           ELSE [@ EXCEPT ![h] = [state |-> "closed", tx |-> 0,
                                                  closes |-> @.closes + 1]],
                  !.calls = Append(@, Call("close", h, <<>>, "OK", <<>>))]

\* sqlite3_free(err_msg)
sqlite3_free(w) ==
    [w EXCEPT !.msgs = [@ EXCEPT ![w.err_msg] = @ + 1],
              !.calls = Append(@, Call("free", w.err_msg, <<>>, "OK", <<>>))]

\* exec_callback keeping only the columns that have a value
exec_callback_skipnull(res, argv) ==
    [result |-> Append(res, SelectSeq(argv, LAMBDA v : v # NullPtr)),
     ret |-> 0]

\* exec_callback: one row of argc cells, a null argv[i] stored as "NULL".
exec_callback(res, argv) ==
    [result |-> Append(res, [i \in 1..Len(argv) |->
                                IF argv[i] # NullPtr THEN argv[i] ELSE "NULL"]),
     ret |-> 0]

\* sqlite3_exec invokes the callback once per row, and stops at a nonzero return.
RECURSIVE Collect(_, _)
Collect(res, rows) ==
    IF rows = <<>> THEN res
    ELSE LET r == exec_callback(res, Head(rows))
         IN  IF r.ret # 0 THEN r.result ELSE Collect(r.result, Tail(rows))

\* The answers sqlite3_exec can give: status, rows reported, transactions open
\* on the handle afterwards.  A NULL handle is refused (SQLITE_MISUSE); the use
\* of a closed handle is undefined and may end with any status.
ExecAnswers(w, sql) ==
    LET ans(rc, rows, tx) == [rc |-> rc, rows |-> rows, tx |-> tx]
        all ==
            IF w.db = NULL THEN { ans("MISUSE", <<>>, 0) }
            ELSE IF w.conn[w.db].state # "open"
                THEN { ans(rc, <<>>, 0) : rc \in {"MISUSE", "OK", "ERROR"} }
            ELSE LET tx == w.conn[w.db].tx
                 IN  IF sql = BEGIN
                         THEN IF tx = 1 THEN { ans("ERROR", <<>>, 1) }
                              ELSE { ans("OK", <<>>, 1), ans("ERROR", <<>>, 0) }
                     ELSE IF sql = COMMIT
                         THEN IF tx = 0 THEN { ans("ERROR", <<>>, 0) }
                              ELSE { ans("OK", <<>>, 0), ans("ERROR", <<>>, 1) }
                     ELSE { ans(rc, rows, tx) : rc \in {"OK", "ERROR"}, rows \in RowSeqs }
    IN  { a \in all : a.rc = "ERROR" => Len(w.msgs) < MaxMsgs }

\* sqlite3_exec(db, sql, callback, &result, &err_msg); cb is FALSE for a null
\* callback.  *pzErrMsg is a fresh buffer on an error, NULL on success, and is
\* left alone when the handle is refused.
sqlite3_exec(w, sql, cb) ==
    { [w |-> [w EXCEPT
                !.conn = IF w.db # NULL /\ w.conn[w.db].state = "open"
                             THEN [@ EXCEPT ![w.db].tx = a.tx] ELSE @,
                !.result = IF cb THEN Collect(@, a.rows) ELSE @,
                !.msgs = IF a.rc = "ERROR" THEN Append(@, 0) ELSE @,
                !.err_msg = IF a.rc = "ERROR" THEN Len(w.msgs) + 1
                            ELSE IF a.rc = "OK" THEN NULL ELSE @,
                !.calls = Append(@, Call("exec", w.db, sql, a.rc, a.rows))],
       rc |-> a.rc] : a \in ExecAnswers(w, sql) }

\* ---------------------------------------------------------- member functions
Ret(w, ret) == [w |-> w, ret |-> ret]

\* int start_transaction()
start_transaction(w) ==
    { IF o.rc # "OK" THEN Ret([o.w EXCEPT !.error_no = ExecutionFailed], 1)
      ELSE Ret(o.w, 0) : o \in sqlite3_exec(w, BEGIN, FALSE) }

\* explicit SQLITE3(const std::string &db_name = ""); ret 1 stands for the throw
SQLITE3(w0, db_name) ==
    LET w == [w0 EXCEPT !.err_msg = NULL, !.db = NULL]
    IN  IF db_name # ""
            THEN UNION { IF o.rc # "OK"
                             THEN { Ret(sqlite3_close([o.w EXCEPT !.error_no = OpenFailed]), 1) }
                         ELSE { Ret([s.w EXCEPT !.result = <<>>], 0) : s \in start_transaction(o.w) }
                         : o \in sqlite3_open(w, db_name) }
        ELSE { Ret([w EXCEPT !.result = <<>>], 0) }

\* ~SQLITE3()
Destructor(w) ==
    LET w1 == IF w.db # NULL THEN sqlite3_close(w) ELSE w
    IN  IF w1.err_msg # NULL THEN sqlite3_free(w1) ELSE w1

\* open without the test of db: a second call binds a second database
open_rebind(w, db_name) ==
    UNION { IF o.rc # "OK"
                THEN { Ret(sqlite3_close([o.w EXCEPT !.error_no = OpenFailed]), 1) }
            ELSE { Ret(s.w, 0) : s \in start_transaction(o.w) }
            : o \in sqlite3_open(w, db_name) }

\* int open(std::string &db_name)
open(w, db_name) ==
    IF w.db # NULL
        THEN { Ret([w EXCEPT !.error_no = AlreadyOpen], 1) }
    ELSE UNION { IF o.rc # "OK"
                     THEN { Ret(sqlite3_close([o.w EXCEPT !.error_no = OpenFailed]), 1) }
                 ELSE { Ret(s.w, 0) : s \in start_transaction(o.w) }
                 : o \in sqlite3_open(w, db_name) }

\* commit() that also empties the result vector
commit_clear(w) ==
    UNION { IF o.rc # "OK" THEN { Ret([o.w EXCEPT !.error_no = ExecutionFailed], 1) }
            ELSE { Ret(s.w, 0) : s \in start_transaction(o.w) }
            : o \in sqlite3_exec([w EXCEPT !.result = <<>>], COMMIT, FALSE) }

\* int commit()
commit(w) ==
    UNION { IF o.rc # "OK" THEN { Ret([o.w EXCEPT !.error_no = ExecutionFailed], 1) }
            ELSE { Ret(s.w, 0) : s \in start_transaction(o.w) }
            : o \in sqlite3_exec(w, COMMIT, FALSE) }

\* execute(std::string&) without result->clear(): rows pile up
execute_string_noclear(w, query) ==
    IF w.db = NULL
        THEN { Ret([w EXCEPT !.error_no = NotConnected], 1) }
    ELSE { IF o.rc # "OK" THEN Ret([o.w EXCEPT !.error_no = ExecutionFailed], 1)
           ELSE Ret(o.w, 0)
           : o \in sqlite3_exec(w, query, TRUE) }

\* execute(std::string&) committing each successful statement by itself
execute_string_autocommit(w, query) ==
    IF w.db = NULL
        THEN { Ret([w EXCEPT !.error_no = NotConnected], 1) }
    ELSE UNION { IF o.rc # "OK" THEN { Ret([o.w EXCEPT !.error_no = ExecutionFailed], 1) }
                 ELSE commit(o.w)
                 : o \in sqlite3_exec([w EXCEPT !.result = <<>>], query, TRUE) }

\* int execute(std::string &query)
execute_string(w, query) ==
    IF w.db = NULL
        THEN { Ret([w EXCEPT !.error_no = NotConnected], 1) }
    ELSE { IF o.rc # "OK" THEN Ret([o.w EXCEPT !.error_no = ExecutionFailed], 1)
           ELSE Ret(o.w, 0)
           : o \in sqlite3_exec([w EXCEPT !.result = <<>>], query, TRUE) }

\* execute(const char*) dropping the rows collected before a failure
execute_cstr_discard(w, query) ==
    IF w.db = NULL
        THEN { Ret([w EXCEPT !.error_no = NotConnected], 1) }
    ELSE { IF o.rc # "OK" THEN Ret([o.w EXCEPT !.error_no = ExecutionFailed, !.result = <<>>], 1)
           ELSE Ret(o.w, 0)
           : o \in sqlite3_exec([w EXCEPT !.result = <<>>], query, TRUE) }

\* int execute(const char* query)
execute_cstr(w, query) ==
    IF w.db = NULL
        THEN { Ret([w EXCEPT !.error_no = NotConnected], 1) }
    ELSE { IF o.rc # "OK" THEN Ret([o.w EXCEPT !.error_no = ExecutionFailed], 1)
           ELSE Ret(o.w, 0)
           : o \in sqlite3_exec([w EXCEPT !.result = <<>>], query, TRUE) }

\* execute(SQLITE3_QUERY&) without the test of db: binds and runs on no connection
execute_query_unchecked(w, query) ==
    LET b == bind(w, query)
    IN  IF ~b.ok
            THEN { Ret([b.w EXCEPT !.error_no = BindingFailed], 1) }
        ELSE { IF o.rc # "OK" THEN Ret([o.w EXCEPT !.error_no = ExecutionFailed], 1)
               ELSE Ret(o.w, 0)
               : o \in sqlite3_exec([b.w EXCEPT !.result = <<>>], b.bound_query, TRUE) }

\* execute(SQLITE3_QUERY&) with result->clear() moved before the binding
execute_query_clearfirst(w, query) ==
    IF w.db = NULL
        THEN { Ret([w EXCEPT !.error_no = NotConnected], 1) }
    ELSE LET b == bind([w EXCEPT !.result = <<>>], query)
         IN  IF ~b.ok
                 THEN { Ret([b.w EXCEPT !.error_no = BindingFailed], 1) }
             ELSE { IF o.rc # "OK" THEN Ret([o.w EXCEPT !.error_no = ExecutionFailed], 1)
                    ELSE Ret(o.w, 0)
                    : o \in sqlite3_exec(b.w, b.bound_query, TRUE) }

\* int execute(SQLITE3_QUERY &query)
execute_query(w, query) ==
    IF w.db = NULL
        THEN { Ret([w EXCEPT !.error_no = NotConnected], 1) }
    ELSE LET b == bind(w, query)
         IN  IF ~b.ok
                 THEN { Ret([b.w EXCEPT !.error_no = BindingFailed], 1) }
             ELSE { IF o.rc # "OK" THEN Ret([o.w EXCEPT !.error_no = ExecutionFailed], 1)
                    ELSE Ret(o.w, 0)
                    : o \in sqlite3_exec([b.w EXCEPT !.result = <<>>], b.bound_query, TRUE) }

\* int get_result_row_count()
get_result_row_count(w) == Ret(w, Len(w.result))

\* std::vector<SQLITE_ROW_VECTOR>* get_result(): a pointer to the live table
get_result(w) == Ret(w, 0)

\* ----------------------------------------------------------------- actions
Init ==
    /\ pc = "new"
    /\ error_no \in UninitChar
    /\ db = NULL
    /\ err_msg = NULL
    /\ result = <<>>
    /\ conn = <<>>
    /\ msgs = <<>>
    /\ calls = <<>>
    /\ last = [op |-> "none", arg |-> <<>>, ret |-> 0, preDb |-> NULL, preLen |-> 0]

\* the call named op ended in world o.w, returning o.ret
Return(op, arg, o) ==
    /\ error_no' = o.w.error_no
    /\ db' = o.w.db
    /\ err_msg' = o.w.err_msg
    /\ result' = o.w.result
    /\ conn' = o.w.conn
    /\ msgs' = o.w.msgs
    /\ calls' = o.w.calls
    /\ last' = [op |-> op, arg |-> arg, ret |-> o.ret,
                preDb |-> db, preLen |-> Len(result)]

Construct ==
    /\ pc = "new"
    /\ \E db_name \in Paths : \E o \in SQLITE3(World, db_name) :
          /\ Return("SQLITE3", <<>>, o)
          /\ pc' = IF o.ret = 0 THEN "live" ELSE "thrown"

Destroy ==
    /\ pc = "live"
    /\ Return("~SQLITE3", <<>>, Ret(Destructor(World), 0))
    /\ pc' = "dead"

Open ==
    /\ pc = "live"
    /\ \E db_name \in Paths : \E o \in open(World, db_name) : Return("open", <<>>, o)
    /\ UNCHANGED pc

Commit ==
    /\ pc = "live"
    /\ \E o \in commit(World) : Return("commit", <<>>, o)
    /\ UNCHANGED pc

ExecuteQuery ==
    /\ pc = "live"
    /\ \E query \in Queries : \E o \in execute_query(World, query) :
          Return("execute_query", query, o)
    /\ UNCHANGED pc

ExecuteString ==
    /\ pc = "live"
    /\ \E query \in Strings : \E o \in execute_string(World, query) :
          Return("execute_string", query, o)
    /\ UNCHANGED pc

ExecuteCStr ==
    /\ pc = "live"
    /\ \E query \in Strings : \E o \in execute_cstr(World, query) :
          Return("execute_cstr", query, o)
    /\ UNCHANGED pc

GetResultRowCount ==
    /\ pc = "live"
    /\ Return("get_result_row_count", <<>>, get_result_row_count(World))
    /\ UNCHANGED pc

GetResult ==
    /\ pc = "live"
    /\ Return("get_result", <<>>, get_result(World))
    /\ UNCHANGED pc

Next ==
    \/ Construct
    \/ Destroy
    \/ Open
    \/ Commit
    \/ ExecuteQuery
    \/ ExecuteString
    \/ ExecuteCStr
    \/ GetResultRowCount
    \/ GetResult

Spec == Init /\ [][Next]_vars

\* ------------------------------------------------------- claim vocabulary
ExecOps == {"execute_query", "execute_string", "execute_cstr"}
Fallible == {"open", "commit"} \cup ExecOps

IsExec(c) == c.fn = "exec"
IsOpen(c) == c.fn = "open"
IsClose(c) == c.fn = "close"
IsBind(c) == c.fn = "bind"

\* the sqlite3_exec / sqlite3_open / sqlite3_close / bind calls of the latest operation
ExecCalls == SelectSeq(calls, IsExec)
OpenCalls == SelectSeq(calls, IsOpen)
CloseCalls == SelectSeq(calls, IsClose)
BindCalls == SelectSeq(calls, IsBind)

\* the instance holds a handle the engine has open (not closed, not failed)
Connected == db # NULL /\ conn[db].state = "open"

\* C1: whenever commit() returns 0 on an open instance, exactly one
\* transaction is active on the connection afterwards.
C1_CommitLeavesOneTransaction ==
    (pc = "live" /\ last.op = "commit" /\ last.ret = 0 /\ Connected)
        => conn[db].tx = 1

\* C2: open (and the opening constructor) reports success only in a state
\* where the connection is held and exactly one transaction is active.
C2_OpenAtomicWithBegin ==
    (last.op \in {"open", "SQLITE3"} /\ last.ret = 0 /\ OpenCalls # <<>>)
        => (Connected /\ conn[db].tx = 1)

\* C3: when open(path) is called on an Unopened instance and the engine's
\* file-open fails, open returns failure with OpenFailed, the handle is
\* closed and the instance holds no connection handle afterwards.
C3_FailedOpenLeavesUnopened ==
    (last.op = "open" /\ last.preDb = NULL /\ OpenCalls # <<>> /\ OpenCalls[1].rc # "OK")
        => /\ last.ret = 1
           /\ error_no = OpenFailed
           /\ \A h \in DOMAIN conn : conn[h].state = "closed"
           /\ db = NULL

\* C4: sqlite3_close is never called on an already-closed handle, every
\* handle has been closed exactly once when teardown (or a throwing
\* constructor) is over, and teardown of a never-opened instance closes nothing.
C4_CloseExactlyOnce ==
    /\ \A h \in DOMAIN conn : conn[h].closes <= 1
    /\ pc \in {"dead", "thrown"} => \A h \in DOMAIN conn : conn[h].closes = 1
    /\ (pc = "dead" /\ last.preDb = NULL) => CloseCalls = <<>>

\* C5: commit() on an instance holding no connection returns failure and sets
\* the latest-error code to NotConnected (4).
C5_CommitUnopenedNotConnected ==
    (last.op = "commit" /\ last.preDb = NULL)
        => (last.ret = 1 /\ error_no = NotConnected)

\* C6: any execute overload on an instance holding no connection returns
\* failure with NotConnected (4), calls neither the engine nor the binder, and
\* leaves the ResultTable as it was.
C6_ExecuteUnopened ==
    [][(pc = "live" /\ db = NULL /\ last'.op \in ExecOps)
          => /\ last'.ret = 1
             /\ error_no' = NotConnected
             /\ calls' = <<>>
             /\ result' = result
             /\ db' = NULL]_vars

C6_Witness ==
    /\ last.op = "execute_query" /\ last.preDb = NULL
    /\ last.ret = 1 /\ error_no = NotConnected

\* C7: a call to open, execute or commit that succeeds does not leave the
\* failure code of the failed call before it in the latest-error field.
C7_SuccessOverwritesError ==
    [][(last.op \in Fallible /\ last.ret = 1 /\ last'.op \in Fallible /\ last'.ret = 0)
          => error_no' = 0]_vars

\* C8: open(path) on an instance that already holds a connection returns
\* failure with AlreadyOpen (2), makes no engine call, and leaves the handle,
\* the transaction state and the ResultTable unchanged.
C8_OpenTwiceAlreadyOpen ==
    [][(pc = "live" /\ db # NULL /\ last'.op = "open")
          => /\ last'.ret = 1
             /\ error_no' = AlreadyOpen
             /\ calls' = <<>>
             /\ db' = db
             /\ conn' = conn
             /\ result' = result]_vars

C8_Witness ==
    /\ last.op = "open" /\ last.preDb # NULL /\ last.ret = 1
    /\ Connected /\ conn[db].tx = 1 /\ result # <<>>

\* the text of the rows the engine reported, row by row and cell by cell
RowsAsText(rows) ==
    [r \in 1..Len(rows) |->
        [i \in 1..Len(rows[r]) |-> IF rows[r][i] = NullPtr THEN "NULL" ELSE rows[r][i]]]

\* C9: after an execute call that reached the engine, the ResultTable holds
\* exactly the rows the engine reported during that call, in order, and no row
\* of an earlier call.
C9_ExecuteReplacesResult ==
    (last.op \in ExecOps /\ ExecCalls # <<>>)
        => (Len(ExecCalls) = 1 /\ result = RowsAsText(ExecCalls[1].rows))

C9_Witness ==
    /\ last.op \in ExecOps /\ last.preLen = 2
    /\ Len(ExecCalls) = 1 /\ ExecCalls[1].rows = << <<NullPtr, "x">> >>
    /\ result = << <<"NULL", "x">> >>

\* C10: execute with a binder whose placeholder has no bound value, on an
\* instance holding a connection, returns failure with BindingFailed (3),
\* submits nothing to the engine and leaves the ResultTable unchanged.
C10_BindingFailed ==
    [][(pc = "live" /\ db # NULL /\ last'.op = "execute_query"
                    /\ BindCalls' # <<>> /\ BindCalls'[1].rc # "OK")
          => /\ last'.ret = 1
             /\ error_no' = BindingFailed
             /\ Len(calls') = 1
             /\ result' = result
             /\ conn' = conn]_vars

C10_Witness ==
    /\ last.op = "execute_query" /\ last.ret = 1 /\ error_no = BindingFailed
    /\ BindCalls # <<>> /\ BindCalls[1].rc = "out_of_range"
    /\ Connected /\ result # <<>>

\* C11: when the engine fails the statement after reporting k rows, execute
\* returns failure with ExecutionFailed (127) and the ResultTable holds exactly
\* those k rows in order; the row count read afterwards is k.
C11_FailureKeepsPartialRows ==
    /\ (last.op \in ExecOps /\ ExecCalls # <<>> /\ ExecCalls[1].rc = "ERROR")
          => /\ last.ret = 1
             /\ error_no = ExecutionFailed
             /\ Len(result) = Len(ExecCalls[1].rows)
             /\ \A k \in 1..Len(result) : result[k] = RowsAsText(ExecCalls[1].rows)[k]
    /\ last.op = "get_result_row_count" => last.ret = Len(result)

C11_Witness ==
    /\ last.op = "execute_cstr" /\ last.ret = 1 /\ Connected
    /\ ExecCalls # <<>> /\ ExecCalls[1].rc = "ERROR"
    /\ ExecCalls[1].rows = << <<"x">>, <<NullPtr, "x">> >>
    /\ Len(result) = 2

\* the handles the engine has produced and not yet closed
LiveHandles == { h \in DOMAIN conn : conn[h].state # "closed" }

\* C12: the instance never has more than one live engine connection, a live
\* connection is the one the instance holds, and no call opens a second handle
\* or replaces the handle held.
C12_AtMostOneConnection ==
    /\ [](Cardinality(LiveHandles) <= 1 /\ \A h \in LiveHandles : h = db)
    /\ [][(pc = "live" /\ db # NULL) => (db' = db /\ Len(conn') = Len(conn))]_vars

C12_Witness ==
    /\ pc = "live" /\ last.op = "open" /\ last.preDb # NULL
    /\ LiveHandles = {db} /\ Len(conn) = 1 /\ conn[db].tx = 0

\* ------------------------------------------- the row callback on its own
\* exec_callback applied, row after row, to any argc and argv the engine can
\* pass: 0..MaxCols columns, each a null pointer, a text, or the text "NULL".
ArgvCells == {NullPtr, "x", "NULL"}
Argvs == UNION { [1..argc -> ArgvCells] : argc \in 0..MaxCols }

InitCb ==
    /\ pc = "exec"
    /\ error_no = 0
    /\ db = NULL
    /\ err_msg = NULL
    /\ result = <<>>
    /\ conn = <<>>
    /\ msgs = <<>>
    /\ calls = <<>>
    /\ last = [op |-> "none", arg |-> <<>>, ret |-> 0, preDb |-> NULL, preLen |-> 0]

Callback ==
    /\ pc = "exec"
    /\ Len(result) < MaxRows
    /\ \E argv \in Argvs :
          LET r == exec_callback(result, argv)
          IN  /\ result' = r.result
              /\ calls' = <<Call("exec_callback", NULL, <<>>, "OK", <<argv>>)>>
              /\ last' = [op |-> "exec_callback", arg |-> argv, ret |-> r.ret,
                          preDb |-> NULL, preLen |-> Len(result)]
    /\ UNCHANGED <<pc, error_no, db, err_msg, conn, msgs>>

NextCb == Callback

SpecCb == InitCb /\ [][NextCb]_vars

\* C13: for a row of n values the callback appends exactly one row of exactly
\* n cells to the end of the ResultTable, cell i being the text v[i], or "NULL"
\* when v[i] is a null pointer, whatever the width of the rows before it; and
\* it returns 0.
C13_CallbackAppendsRow ==
    [][last'.op = "exec_callback"
          => LET argv == calls'[1].rows[1]
                 n == Len(result)
             IN  /\ last'.ret = 0
                 /\ Len(result') = n + 1
                 /\ \A k \in 1..n : result'[k] = result[k]
                 /\ Len(result'[n + 1]) = Len(argv)
                 /\ \A i \in 1..Len(argv) :
                        result'[n + 1][i] = IF argv[i] = NullPtr THEN "NULL" ELSE argv[i]]_vars

C13_Witness ==
    /\ last.op = "exec_callback" /\ last.ret = 0
    /\ calls[1].rows[1] = <<NullPtr, "x">>
    /\ result = << <<"x">>, <<"NULL", "x">> >>

\* the SQL text the caller of the latest execute handed over
CallerSql ==
    IF last.op = "execute_query"
        THEN Resolve(last.arg.template, last.arg.bindings).bound_query
    ELSE last.arg

\* the latest execute got as far as having an SQL text to run
HasSql ==
    last.op = "execute_query" => Resolve(last.arg.template, last.arg.bindings).ok

\* C14 as stated: every execute call on an instance holding a connection
\* submits exactly one exec request, holding only the caller's SQL; calls other
\* than execute, open, commit and the opening constructor submit none.
C14_ExecuteSubmitsOneRequest ==
    /\ (last.op \in ExecOps /\ last.preDb # NULL)
          => (Len(ExecCalls) = 1 /\ ExecCalls[1].sql = CallerSql)
    /\ (last.op \notin ExecOps \cup {"open", "commit", "SQLITE3"}) => ExecCalls = <<>>

\* C14 amended: an execute call on an instance holding a connection submits
\* exactly one exec request, holding only the caller's SQL and no BEGIN or
\* COMMIT of its own, whether the statement succeeds or fails, unless the
\* binding fails, in which case it submits none; calls other than execute,
\* open, commit and the opening constructor submit none.
C14_ExecuteSubmitsOnlyCallerSql ==
    /\ (last.op \in ExecOps /\ last.preDb # NULL /\ HasSql)
          => (Len(ExecCalls) = 1 /\ ExecCalls[1].sql = CallerSql)
    /\ (last.op \in ExecOps /\ last.preDb # NULL /\ ~HasSql) => ExecCalls = <<>>
    /\ (last.op \notin ExecOps \cup {"open", "commit", "SQLITE3"}) => ExecCalls = <<>>

C14_Witness ==
    /\ last.op = "execute_query" /\ last.ret = 1 /\ Connected /\ conn[db].tx = 1
    /\ Len(calls) = 2 /\ ExecCalls[1].rc = "ERROR"
    /\ ExecCalls[1].sql = <<"SELECT", "5">>

\* C15: when a call has just failed with latest-error ExecutionFailed (127),
\* the instance holds a non-null diagnostic message, and it is the message the
\* engine allocated for that call.
C15_ExecutionFailedHasMessage ==
    (pc = "live" /\ last.op \in Fallible /\ last.ret = 1 /\ error_no = ExecutionFailed)
        => /\ err_msg # NULL
           /\ ExecCalls # <<>>
           /\ ExecCalls[Len(ExecCalls)].rc = "ERROR"
           /\ err_msg = Len(msgs)

IsEngineCall(c) == c.fn # "bind"
EngineOnly(o) == [o EXCEPT !.w.calls = SelectSeq(@, IsEngineCall)]

\* C17: from any state of a live instance and for every answer of the engine,
\* execute(binder) whose binding resolves to the text s, execute(string s) and
\* execute(C string s) end with the same return value, latest-error code,
\* ResultTable and engine requests.
C17_OverloadsEquivalent ==
    pc = "live" =>
        \A s \in Strings :
            /\ execute_cstr(World, s) = execute_string(World, s)
            /\ \A q \in Queries :
                  LET r == Resolve(q.template, q.bindings)
                  IN  (r.ok /\ r.bound_query = s)
                          => { EngineOnly(o) : o \in execute_query(World, q) }
                                 = execute_string(World, s)

C17_Witness ==
    /\ pc = "live" /\ Connected /\ last.op = "execute_query" /\ last.ret = 0
    /\ CallerSql \in Strings /\ last.preLen = 2 /\ Len(result) = 1
    /\ BindCalls # <<>> /\ ExecCalls[1].sql = CallerSql

\* the values the latest-error code is documented to take (perror's cases)
ErrorCodes == {0, OpenFailed, AlreadyOpen, BindingFailed, NotConnected, ExecutionFailed}

\* C18: a freshly constructed instance (empty path, or a path opened without
\* any failure) has latest-error code 0, a call that succeeds on every engine
\* request leaves a code of 0 at 0, and the code is always one of
\* {0, 1, 2, 3, 4, 127}.
C18_ErrorCodeStartsAtZero ==
    /\ [](pc = "live" => error_no \in ErrorCodes)
    /\ []((pc = "live" /\ last.op = "SQLITE3" /\ \A i \in DOMAIN calls : calls[i].rc = "OK")
             => error_no = 0)
    /\ [][(pc = "live" /\ error_no = 0 /\ last'.ret = 0 /\ last'.op \in Fallible
                       /\ \A i \in DOMAIN calls' : calls'[i].rc = "OK")
             => error_no' = 0]_vars

\* C19: no diagnostic buffer the engine allocated into err_msg is freed twice,
\* and when teardown is over every one of them has been freed exactly once.
C19_MessagesFreedOnce ==
    /\ \A m \in DOMAIN msgs : msgs[m] <= 1
    /\ pc = "dead" => \A m \in DOMAIN msgs : msgs[m] = 1

====
